---- MODULE Spec2Model ----
(***************************************************************************)
(* Model of bb_bank_historic_rata_data_fetch.py: the fetch planner         *)
(* (create_fetch_list), the per-month cache (load_or_fetch_data over       *)
(* get_data_table), the aggregation loop (get_data_for_months) and main.   *)
(* The file system (cache folder, cache files, combined output files), the *)
(* UTC clock and the remote site are the environment.                      *)
(***************************************************************************)
EXTENDS Integers, Sequences, FiniteSets, TLC

\* ------------------------------------------------------------------ bounds
\* Total number of remote requests (requests.post) over one behaviour.
MaxFetch == 5
\* Number of runs of main over one behaviour.
MaxRuns == 2
\* Number of calls of load_or_fetch_data in the stand-alone cache specification.
MaxCalls == 3
\* Rows of a non-empty table published by the remote site.
MaxRows == 2
\* Seconds the UTC clock may advance between runs.
MaxSeconds == 1
\* Number of save steps in the stand-alone specification of the save step.
MaxSaves == 3

\* ------------------------------------------------------- program constants
\* HTTP status accepted by get_data_table.
HTTP_OK == 200
\* Months of a year strictly before the current one.
MONTHS_PER_YEAR == 12
\* Consecutive zero-row months after which the traversal is aborted.
ABORT_AFTER == 5

\* ------------------------------------------------------------ input sets
\* Status codes the site answers with.
StatusCodes == {200, 500}
\* Years the command line arguments are drawn from.
Years == 2024..2026
\* (year, month) of the UTC clock when the first run starts.
InitNow == {<<2025, 5>>, <<2025, 12>>}
\* (month, year) pairs, in the order of the tuples of the program.
AllPairs == {<<m, y>> : m \in 1..MONTHS_PER_YEAR, y \in Years}
\* Pairs the stand-alone cache specification calls load_or_fetch_data with.
CallPairs == {<<2, 2024>>, <<2, 2025>>}

\* ------------------------------------------------------------- calendar
\* calendar.month_name[month]
month_name(month) ==
    << "January", "February", "March", "April", "May", "June", "July",
       "August", "September", "October", "November", "December" >>[month]

IsLeap(year) == (year % 4 = 0) /\ ((year % 100 # 0) \/ (year % 400 = 0))

\* calendar.monthrange(year, month)[1]
last_day(year, month) ==
    IF month = 2 THEN (IF IsLeap(year) THEN 29 ELSE 28)
    ELSE IF month \in {4, 6, 9, 11} THEN 30 ELSE 31

\* ------------------------------------------------------------- data frames
\* A data frame is a sequence of rows; a row carries its index label, the
\* value read from the site and, once tagged, the month_year column.
NoDate == << >>

\* pd.read_html(...)[0] on a body whose first table has the raw values vs:
\* a frame with a fresh RangeIndex 0..n-1.
FrameOf(vs) ==
    [i \in 1..Len(vs) |-> [index |-> i - 1, value |-> vs[i], month_year |-> NoDate]]

\* data_table[('month_year', 'month_year')] = date_column
WithMonthYear(frame, month, year) ==
    [i \in 1..Len(frame) |->
        [frame[i] EXCEPT !.month_year = <<year, month, last_day(year, month)>>]]

RECURSIVE Flatten(_)
Flatten(tables) ==
    IF tables = << >> THEN << >> ELSE Head(tables) \o Flatten(Tail(tables))

\* ignore_index=True: the result is labelled 0..n-1 anew.
ResetIndex(frame) ==
    [i \in 1..Len(frame) |-> [frame[i] EXCEPT !.index = i - 1]]

\* Result of a call that returns a data frame, returns None or raises.
Table(frame) == [kind |-> "table", table |-> frame, exc |-> ""]
ReturnNone == [kind |-> "None", table |-> << >>, exc |-> ""]
Raise(e) == [kind |-> "raise", table |-> << >>, exc |-> e]
\* No call made yet.
Unset == [kind |-> "unset", table |-> << >>, exc |-> ""]

\* Mutant of pd_concat: an empty list yields an empty frame.
concat_or_empty(tables) == Table(ResetIndex(Flatten(tables)))

\* pd.concat(all_tables, ignore_index=True); an empty list raises ValueError.
pd_concat(tables) ==
    IF tables = << >> THEN Raise("ValueError: No objects to concatenate")
    ELSE Table(ResetIndex(Flatten(tables)))

\* DataFrame.to_parquet(path, index=True): the stored file.
to_parquet(frame) == [format |-> "parquet", index |-> TRUE, rows |-> frame]
\* pd.read_parquet(path)
read_parquet(file) == file.rows

\* -------------------------------------------------------------- planner
\* Mutant of InvalidRange: the range is not checked.
RangeUnchecked(start_year, end_year) == FALSE

\* The check at the head of create_fetch_list.
InvalidRange(start_year, end_year) == end_year < start_year

\* max_month = 12 if year < current_year else current_month
max_month(year, current_year, current_month) ==
    IF year < current_year THEN MONTHS_PER_YEAR ELSE current_month

\* Mutant of MonthsOfYear: range(1, max_month) leaves the last month out.
MonthsShort(year, current_year, current_month) ==
    [month \in 1..(max_month(year, current_year, current_month) - 1) |-> <<month, year>>]

\* for month in range(1, max_month + 1): fetch_list.append((month, year))
MonthsOfYear(year, current_year, current_month) ==
    [month \in 1..max_month(year, current_year, current_month) |-> <<month, year>>]

\* for year in range(start_year, end_year + 1): ...
RECURSIVE YearLoop(_, _, _, _)
YearLoop(year, end_year, current_year, current_month) ==
    IF year > end_year THEN << >>
    ELSE MonthsOfYear(year, current_year, current_month)
         \o YearLoop(year + 1, end_year, current_year, current_month)

\* Mutant of NotBeyondNow: the final filter keeps every pair.
KeepAll(pair, current_year, current_month) == TRUE

\* The condition of the final list comprehension.
NotBeyondNow(pair, current_year, current_month) ==
    \/ pair[2] < current_year
    \/ (pair[2] = current_year /\ pair[1] <= current_month)

\* create_fetch_list, given the two clock readings it takes.
create_fetch_list(start_year, end_year, current_year, current_month) ==
    IF InvalidRange(start_year, end_year)
    THEN [kind |-> "raise", list |-> << >>,
          exc |-> "ValueError: End year cannot be smaller than start year."]
    ELSE LET Keep(pair) == NotBeyondNow(pair, current_year, current_month)
         IN [kind |-> "list",
             list |-> SelectSeq(YearLoop(start_year, end_year, current_year, current_month), Keep),
             exc |-> ""]

\* ----------------------------------------------------------- remote site
\* What requests.post may produce: a transport exception, or a response
\* with a status code and the tables of its body (each a list of raw values).
RawTable(n) == [i \in 1..n |-> i]
Bodies == {<< >>, <<RawTable(0)>>, <<RawTable(MaxRows)>>}
Responses ==
    {[kind |-> "ConnectionError", status_code |-> 0, tables |-> << >>]}
    \cup {[kind |-> "response", status_code |-> c, tables |-> << >>] :
              c \in StatusCodes \ {HTTP_OK}}
    \cup {[kind |-> "response", status_code |-> HTTP_OK, tables |-> b] : b \in Bodies}

\* pd.read_html(io.StringIO(response.text)): raises when the body has no table.
read_html(resp) ==
    IF resp.tables = << >> THEN Raise("ValueError: No tables found")
    ELSE Table(FrameOf(resp.tables[1]))

\* get_data_table(month, year) when requests.post produces resp.
get_data_table(month, year, resp) ==
    IF resp.kind = "ConnectionError" THEN Raise("ConnectionError")
    ELSE IF resp.status_code = HTTP_OK
         THEN LET parsed == read_html(resp)
              IN IF parsed.kind = "raise" THEN parsed
                 ELSE Table(WithMonthYear(parsed.table, month, year))
         ELSE ReturnNone

\* ------------------------------------------------------------ cache files
NoFile == [format |-> "absent", index |-> FALSE, rows |-> << >>]
\* os.path.join(DATA_FOLDER, f"{month}_{year}.parquet"), as the key of the file.
file_path(month, year) == <<month, year>>
\* os.path.exists(file_path)
path_exists(files, month, year) == files[file_path(month, year)] # NoFile

\* Mutant of StoreFetched: the fetched table is not written to the cache.
StoreNothing(files, month, year, ret) == files

\* Mutant of StoreFetched: None is written to the cache as an empty file.
StoreNone(files, month, year, ret) ==
    IF ret.kind \in {"table", "None"}
    THEN [files EXCEPT ![file_path(month, year)] = to_parquet(ret.table)]
    ELSE files

\* Mutant of StoreFetched: only tables with rows are written to the cache.
StoreNonEmpty(files, month, year, ret) ==
    IF ret.kind = "table" /\ Len(ret.table) > 0
    THEN [files EXCEPT ![file_path(month, year)] = to_parquet(ret.table)]
    ELSE files

\* if data_table is not None: data_table.to_parquet(file_path, index=True)
StoreFetched(files, month, year, ret) ==
    IF ret.kind = "table"
    THEN [files EXCEPT ![file_path(month, year)] = to_parquet(ret.table)]
    ELSE files

\* load_or_fetch_data(month, year) over the cache files, resp being what the
\* site answers if it is asked: the returned value, the files afterwards and
\* whether the answer came from the cache or from the site.
load_or_fetch_data(files, month, year, resp) ==
    IF path_exists(files, month, year)
    THEN [ret |-> Table(read_parquet(files[file_path(month, year)])),
          files |-> files, source |-> "cache"]
    ELSE LET data_table == get_data_table(month, year, resp)
         IN [ret |-> data_table,
             files |-> StoreFetched(files, month, year, data_table),
             source |-> "remote"]

\* ------------------------------------------------------------- aggregator
\* data_table.shape in the print of the loop: None has no attribute shape.
shape(ret) ==
    IF ret.kind = "None"
    THEN Raise("AttributeError: 'NoneType' object has no attribute 'shape'")
    ELSE Table(ret.table)

\* Mutant of AbortNow: the loop breaks one month late.
AbortLate(count) == count = ABORT_AFTER + 1

\* if consecutive_zero_rows == 5: ... break
AbortNow(count) == count = ABORT_AFTER

\* Mutant of Collect: the table is put in front of the list.
CollectFront(tables, frame) == <<frame>> \o tables

\* all_tables.append(data_table)
Collect(tables, frame) == Append(tables, frame)

\* Mutant of LoopBody: a non-empty table does not reset the counter.
LoopBodyNoReset(tables, count, months, ret, month, year) ==
    IF ret.kind # "None"
    THEN IF Len(ret.table) > 0
         THEN [all_tables |-> Collect(tables, ret.table),
               consecutive_zero_rows |-> count,
               consecutive_zero_months |-> months,
               break |-> FALSE]
         ELSE [all_tables |-> tables,
               consecutive_zero_rows |-> count + 1,
               consecutive_zero_months |-> Append(months, <<month_name(month), year>>),
               break |-> AbortNow(count + 1)]
    ELSE [all_tables |-> tables, consecutive_zero_rows |-> count,
          consecutive_zero_months |-> months, break |-> FALSE]

\* The body of the loop after the print, for a returned value ret:
\* the new accumulators and whether the loop breaks.
LoopBody(tables, count, months, ret, month, year) ==
    IF ret.kind # "None"
    THEN IF Len(ret.table) > 0
         THEN [all_tables |-> Collect(tables, ret.table),
               consecutive_zero_rows |-> 0,
               consecutive_zero_months |-> << >>,
               break |-> FALSE]
         ELSE [all_tables |-> tables,
               consecutive_zero_rows |-> count + 1,
               consecutive_zero_months |-> Append(months, <<month_name(month), year>>),
               break |-> AbortNow(count + 1)]
    ELSE [all_tables |-> tables, consecutive_zero_rows |-> count,
          consecutive_zero_months |-> months, break |-> FALSE]

\* Mutant of NextRequest: the list is traversed from its first entry.
NextForward(list, left) == list[Len(list) - left + 1]

\* reversed(fetch_list): the entry taken when left entries are still to come.
NextRequest(list, left) == list[left]

\* ------------------------------------------------------------------ clock
NextMonth(t) ==
    IF t.month = MONTHS_PER_YEAR
    THEN [year |-> t.year + 1, month |-> 1, second |-> 0]
    ELSE [year |-> t.year, month |-> t.month + 1, second |-> 0]

\* --------------------------------------------------------- combined output
\* 'historic_rate_data_bd_banks_combined.parquet': the name without suffix.
BaseName == << >>
\* The name with strftime("_%Y-%m-%d_%H-%M-%S_GMT") of the clock reading t.
StampedName(t) == <<t.year, t.month, t.second>>
\* The file name main writes the combined table to.
file_name_combined(existing, t) ==
    IF BaseName \in existing THEN StampedName(t) ELSE BaseName

\* Mutant of save_combined: the file is written under the base name always.
save_to_base(files, t, result) ==
    [n \in DOMAIN files \cup {BaseName} |->
        IF n = BaseName THEN to_parquet(result.table) ELSE files[n]]

\* Mutant of save_combined: a result that raised is saved as an empty table.
save_anyway(files, t, result) ==
    LET name == file_name_combined(DOMAIN files, t)
    IN [n \in DOMAIN files \cup {name} |->
           IF n = name THEN to_parquet(result.table) ELSE files[n]]

\* The lines of main after get_data_for_months: nothing is written when it
\* raised; otherwise result_table.to_parquet(file_name_combined, index=True)
\* under the name chosen at the clock reading t.
save_combined(files, t, result) ==
    IF result.kind = "raise" THEN files
    ELSE LET name == file_name_combined(DOMAIN files, t)
         IN [n \in DOMAIN files \cup {name} |->
                IF n = name THEN to_parquet(result.table) ELSE files[n]]

\* ------------------------------------------------------------------ state
VARIABLES
    now,                     \* the UTC clock: [year, month, second]
    dirExists,               \* os.path.exists(DATA_FOLDER)
    cache,                   \* the files of DATA_FOLDER, by file_path
    combined,                \* the combined output files, by name
    pc,                      \* "idle", "loop" (in the for loop), "concat" (loop left), "direct"
    start_year, end_year,    \* args.years of the current or last run
    current_year, current_month,   \* the two clock readings of create_fetch_list
    fetch_list,              \* the plan of the current or last run
    left,                    \* entries of reversed(fetch_list) not yet taken
    all_tables, consecutive_zero_rows, consecutive_zero_months,
    broke,                   \* the loop was left by its break
    result_table,            \* what get_data_for_months returned or raised
    outcome,                 \* how the current or last run of main stands
    exception,               \* the exception that ended the last run, or ""
    resolved,                \* calls of load_or_fetch_data of this run, in order
    fetchCount,              \* remote requests made so far
    runs,                    \* runs of main started so far
    before,                  \* file system and request count when the run started
    absent                   \* pairs the site has answered with a status other than 200

fsvars == <<dirExists, cache, combined>>
loopvars == <<left, all_tables, consecutive_zero_rows, consecutive_zero_months, broke>>
planvars == <<start_year, end_year, current_year, current_month, fetch_list>>
vars == <<now, dirExists, cache, combined, pc, start_year, end_year, current_year,
          current_month, fetch_list, left, all_tables, consecutive_zero_rows,
          consecutive_zero_months, broke, result_table, outcome, exception,
          resolved, fetchCount, runs, before, absent>>

Snapshot == [dirExists |-> dirExists, cache |-> cache, combined |-> combined,
             fetchCount |-> fetchCount]

\* The answer recorded for a call that asked nothing from the site.
NoRequest == [kind |-> "none", status_code |-> 0, tables |-> << >>]

\* One call of load_or_fetch_data, as the run records it: the pair, where the
\* answer came from, what the site answered, and what the call returned.
Call(month, year, r, resp) ==
    [pair |-> <<month, year>>, source |-> r.source,
     answer |-> (IF r.source = "remote" THEN resp ELSE NoRequest),
     kind |-> r.ret.kind, table |-> r.ret.table, exc |-> r.ret.exc]

\* The site answered resp with a status other than 200.
NotOk(resp) == resp.kind = "response" /\ resp.status_code # HTTP_OK

\* The pairs answered with a status other than 200, after one more call.
AbsentAfter(month, year, r, resp) ==
    IF r.source = "remote" /\ NotOk(resp) THEN absent \cup {<<month, year>>} ELSE absent

\* A fresh working directory at some date: the cache folder may or may not
\* exist, and holds no file; no combined output has been written.
InitCommon ==
    /\ \E t \in InitNow : now = [year |-> t[1], month |-> t[2], second |-> 0]
    /\ cache = [p \in AllPairs |-> NoFile]
    /\ combined = << >>
    /\ start_year = 0 /\ end_year = 0 /\ current_year = 0 /\ current_month = 0
    /\ fetch_list = << >>
    /\ left = 0 /\ all_tables = << >> /\ consecutive_zero_rows = 0
    /\ consecutive_zero_months = << >> /\ broke = FALSE
    /\ result_table = Unset
    /\ outcome = "none" /\ exception = ""
    /\ resolved = << >> /\ fetchCount = 0 /\ runs = 0
    /\ absent = {}

Init ==
    /\ InitCommon
    /\ dirExists \in BOOLEAN
    /\ pc = "idle"
    /\ before = Snapshot

\* --------------------------------------------------------------- main
\* main up to the loop of get_data_for_months: parse the arguments, create
\* the data folder, plan, and return on an invalid range or an empty plan.
\* The clock is read twice by create_fetch_list and may pass a month end
\* between the readings.
main_begin ==
    /\ pc = "idle"
    /\ runs < MaxRuns
    /\ \E s \in Years, e \in Years, tick \in BOOLEAN :
        LET between == IF tick THEN NextMonth(now) ELSE now
            plan == create_fetch_list(s, e, now.year, between.month)
        IN /\ runs' = runs + 1
           /\ before' = Snapshot
           /\ start_year' = s /\ end_year' = e
           /\ dirExists' = TRUE
           /\ resolved' = << >>
           /\ result_table' = Unset
           /\ left' = Len(plan.list)
           /\ all_tables' = << >> /\ consecutive_zero_rows' = 0
           /\ consecutive_zero_months' = << >> /\ broke' = FALSE
           /\ fetch_list' = plan.list
           /\ IF plan.kind = "raise"
              THEN /\ tick = FALSE
                   /\ UNCHANGED <<now, current_year, current_month>>
                   /\ outcome' = "invalid_range" /\ exception' = plan.exc
                   /\ pc' = "idle"
              ELSE /\ now' = between
                   /\ current_year' = now.year /\ current_month' = between.month
                   /\ exception' = ""
                   /\ IF plan.list = << >>
                      THEN outcome' = "no_months" /\ pc' = "idle"
                      ELSE outcome' = "running" /\ pc' = "loop"
    /\ UNCHANGED <<cache, combined, fetchCount, absent>>

\* The rest of one iteration of the loop once load_or_fetch_data has
\* produced r for (month, year).
Iteration(month, year, r, resp) ==
    /\ cache' = r.files
    /\ resolved' = Append(resolved, Call(month, year, r, resp))
    /\ absent' = AbsentAfter(month, year, r, resp)
    /\ IF r.ret.kind = "raise" \/ shape(r.ret).kind = "raise"
       THEN /\ pc' = "idle" /\ outcome' = "raised"
            /\ exception' = (IF r.ret.kind = "raise" THEN r.ret.exc ELSE shape(r.ret).exc)
            /\ UNCHANGED loopvars
       ELSE LET body == LoopBody(all_tables, consecutive_zero_rows,
                                 consecutive_zero_months, r.ret, month, year)
            IN /\ all_tables' = body.all_tables
               /\ consecutive_zero_rows' = body.consecutive_zero_rows
               /\ consecutive_zero_months' = body.consecutive_zero_months
               /\ broke' = body.break
               /\ left' = left - 1
               /\ pc' = IF body.break \/ left = 1 THEN "concat" ELSE "loop"
               /\ UNCHANGED <<outcome, exception>>
    /\ UNCHANGED <<now, dirExists, combined, planvars, result_table, runs, before>>

\* One iteration of the loop whose month is in the cache.
iterate_cached ==
    /\ pc = "loop"
    /\ LET pair == NextRequest(fetch_list, left)
       IN /\ path_exists(cache, pair[1], pair[2])
          /\ Iteration(pair[1], pair[2],
                       load_or_fetch_data(cache, pair[1], pair[2], NoRequest), NoRequest)
    /\ UNCHANGED fetchCount

\* One iteration of the loop whose month is asked from the site.
iterate_remote ==
    /\ pc = "loop"
    /\ fetchCount < MaxFetch
    /\ LET pair == NextRequest(fetch_list, left)
       IN /\ ~path_exists(cache, pair[1], pair[2])
          /\ \E resp \in Responses :
                Iteration(pair[1], pair[2],
                          load_or_fetch_data(cache, pair[1], pair[2], resp), resp)
    /\ fetchCount' = fetchCount + 1

\* The end of get_data_for_months and of main: concatenate, choose the file
\* name and save.
main_finish ==
    /\ pc = "concat"
    /\ LET result == pd_concat(all_tables)
       IN /\ result_table' = result
          /\ combined' = save_combined(combined, now, result)
          /\ IF result.kind = "raise"
             THEN outcome' = "raised" /\ exception' = result.exc
             ELSE outcome' = "saved" /\ exception' = ""
    /\ pc' = "idle"
    /\ UNCHANGED <<now, dirExists, cache, planvars, loopvars, resolved, fetchCount,
                   runs, before, absent>>

\* A second passes between two runs. The program reads the second of the
\* clock only to name its output when the base-named file exists, so the
\* seconds are counted from the first combined output on.
tick_second ==
    /\ pc = "idle"
    /\ BaseName \in DOMAIN combined
    /\ now.second < MaxSeconds
    /\ now' = [now EXCEPT !.second = @ + 1]
    /\ UNCHANGED <<dirExists, cache, combined, pc, planvars, loopvars, result_table,
                   outcome, exception, resolved, fetchCount, runs, before, absent>>

Next == main_begin \/ iterate_cached \/ iterate_remote \/ main_finish \/ tick_second

Spec == Init /\ [][Next]_vars

\* ------------------------------------------- load_or_fetch_data on its own
\* Calls of load_or_fetch_data made directly, one after the other, in a
\* working directory whose data folder exists.
InitCache ==
    /\ InitCommon
    /\ dirExists = TRUE
    /\ pc = "direct"
    /\ before = Snapshot

DirectCall(month, year, r, resp) ==
    /\ cache' = r.files
    /\ resolved' = Append(resolved, Call(month, year, r, resp))
    /\ absent' = AbsentAfter(month, year, r, resp)
    /\ UNCHANGED <<now, dirExists, combined, pc, planvars, loopvars, result_table,
                   outcome, exception, runs, before>>

call_cached ==
    /\ pc = "direct"
    /\ Len(resolved) < MaxCalls
    /\ \E pair \in CallPairs :
          /\ path_exists(cache, pair[1], pair[2])
          /\ DirectCall(pair[1], pair[2],
                        load_or_fetch_data(cache, pair[1], pair[2], NoRequest), NoRequest)
    /\ UNCHANGED fetchCount

call_remote ==
    /\ pc = "direct"
    /\ Len(resolved) < MaxCalls
    /\ \E pair \in CallPairs :
          /\ ~path_exists(cache, pair[1], pair[2])
          /\ \E resp \in Responses :
                DirectCall(pair[1], pair[2],
                           load_or_fetch_data(cache, pair[1], pair[2], resp), resp)
    /\ fetchCount' = fetchCount + 1

NextCache == call_cached \/ call_remote

SpecCache == InitCache /\ [][NextCache]_vars

\* ------------------------------------------------------ the save step alone
\* The save step of main (the lines after get_data_for_months), reached by
\* one run after the other in a working directory without combined output,
\* each run having some table to save; the clock may advance between runs.
InitSave ==
    /\ InitCommon
    /\ dirExists = TRUE
    /\ pc = "save"
    /\ before = Snapshot

\* Tables a run may have to save: one month of k rows, as concatenated.
SaveTables ==
    {pd_concat(<<WithMonthYear(FrameOf(RawTable(k)), p[1], p[2])>>) :
        k \in 1..MaxRows, p \in CallPairs}

save_output ==
    /\ pc = "save"
    /\ runs < MaxSaves
    /\ \E result \in SaveTables :
          /\ result_table' = result
          /\ combined' = save_combined(combined, now, result)
    /\ runs' = runs + 1
    /\ before' = Snapshot
    /\ outcome' = "saved"
    /\ UNCHANGED <<now, dirExists, cache, pc, planvars, loopvars, exception, resolved,
                   fetchCount, absent>>

save_tick ==
    /\ pc = "save"
    /\ now.second < MaxSeconds
    /\ now' = [now EXCEPT !.second = @ + 1]
    /\ UNCHANGED <<dirExists, cache, combined, pc, planvars, loopvars, result_table,
                   outcome, exception, resolved, fetchCount, runs, before, absent>>

NextSave == save_output \/ save_tick

SpecSave == InitSave /\ [][NextSave]_vars

\* =================================================================== claims
\* Helpers of the properties, over the calls the run has recorded.
LastCall == resolved[Len(resolved)]
ZeroRow(call) == call.kind = "table" /\ Len(call.table) = 0
NonEmpty(call) == call.kind = "table" /\ Len(call.table) > 0
\* The calls i-4..i all returned zero-row tables.
FiveZeroEndingAt(i) ==
    /\ i >= ABORT_AFTER
    /\ \A k \in (i - ABORT_AFTER + 1)..i : ZeroRow(resolved[k])
\* (month, year) pair a lies strictly after pair b.
LaterPair(a, b) == a[2] > b[2] \/ (a[2] = b[2] /\ a[1] > b[1])
\* The for loop has been left (by exhaustion or by break), no exception raised in it.
LoopLeft == pc = "concat" \/ result_table # Unset
ConcatError == "ValueError: No objects to concatenate"
RangeError == "ValueError: End year cannot be smaller than start year."

\* C1: a request that load_or_fetch_data resolves to None (cache miss, then
\* a non-200 response) is a soft absence for the aggregator: the run does
\* not raise on it, and the consecutive-absence counter counts it.
C1_AbsentIsSoft ==
    (resolved # << >> /\ LastCall.kind = "None") =>
        /\ outcome # "raised"
        /\ consecutive_zero_rows >= 1

\* C2: the loop is left by its break exactly when the last five calls all
\* returned zero-row tables; no call follows a run of five zero-row results;
\* the collected list then holds none of the five (it holds exactly the
\* non-empty tables); and a loop left without the break has resolved every
\* entry of the plan.
C2_EarlyStop ==
    /\ \A i \in 1..Len(resolved) : FiveZeroEndingAt(i) => i = Len(resolved)
    /\ (resolved # << >> /\ FiveZeroEndingAt(Len(resolved)) /\ pc # "idle") => broke
    /\ LoopLeft =>
        /\ broke <=> FiveZeroEndingAt(Len(resolved))
        /\ broke => /\ \A k \in 1..Len(all_tables) : Len(all_tables[k]) > 0
                    /\ Len(all_tables) =
                         Cardinality({k \in 1..Len(resolved) : NonEmpty(resolved[k])})
        /\ ~broke => Len(resolved) = Len(fetch_list)
        /\ Len(resolved) + left = Len(fetch_list)

\* C2 witness: the loop was left by the break with plan entries still unresolved.
C2_Witness ==
    /\ pc = "concat" /\ broke
    /\ left > 0
    /\ FiveZeroEndingAt(Len(resolved))

\* C3 as stated: any two calls in a row for the same pair make exactly one
\* remote request in total, the second is served from the cache and returns
\* a table equal to the first's.
Fetches(call) == IF call.source = "remote" THEN 1 ELSE 0
C3_TwiceOneFetch ==
    \A i \in 1..(Len(resolved) - 1) :
        resolved[i].pair = resolved[i + 1].pair =>
            /\ Fetches(resolved[i]) + Fetches(resolved[i + 1]) = 1
            /\ resolved[i + 1].source = "cache"
            /\ resolved[i + 1].kind = resolved[i].kind
            /\ resolved[i + 1].table = resolved[i].table

\* C3 amended: of two calls in a row for the same pair, when the first finds
\* no cache file and its request returns a table, the second is served from
\* the cache without a request and returns an equal table (one request in
\* total); when the first is served from the cache so is the second (no
\* request); when the first returns None or raises, the second asks the site again.
C3_TwiceAmended ==
    \A i \in 1..(Len(resolved) - 1) :
        resolved[i].pair = resolved[i + 1].pair =>
            /\ resolved[i].kind = "table" =>
                  /\ resolved[i + 1].source = "cache"
                  /\ resolved[i + 1].kind = "table"
                  /\ resolved[i + 1].table = resolved[i].table
                  /\ Fetches(resolved[i + 1]) = 0
                  /\ Fetches(resolved[i]) + Fetches(resolved[i + 1]) <= 1
            /\ resolved[i].kind # "table" =>
                  /\ resolved[i].source = "remote"
                  /\ resolved[i + 1].source = "remote"

\* C3 witness: a fetched two-row table is returned again from the cache.
C3_Witness ==
    /\ Len(resolved) >= 2
    /\ resolved[1].pair = resolved[2].pair
    /\ resolved[1].source = "remote" /\ NonEmpty(resolved[1])
    /\ resolved[2].source = "cache" /\ fetchCount = 1

\* C4: in every plan create_fetch_list returns, no entry lies strictly after
\* (current_year, current_month) as read from the clock, nor after the clock
\* itself, also when end_year or start_year lies after the current year.
C4_NoFuture ==
    (runs > 0 /\ outcome # "invalid_range") =>
        \A i \in 1..Len(fetch_list) :
            /\ ~LaterPair(fetch_list[i], <<current_month, current_year>>)
            /\ ~LaterPair(fetch_list[i], <<now.month, now.year>>)

\* C4 witness: a non-empty plan for a range that ends after the current year.
C4_Witness ==
    /\ runs > 0 /\ outcome # "invalid_range"
    /\ end_year > current_year
    /\ fetch_list # << >>

\* C5: with end_year < start_year create_fetch_list raises its ValueError
\* and main returns having called load_or_fetch_data for no month, made no
\* remote request, touched no cache file and written no combined output.
C5_InvalidRange ==
    (runs > 0 /\ end_year < start_year) =>
        /\ outcome = "invalid_range" /\ exception = RangeError
        /\ pc = "idle"
        /\ resolved = << >>
        /\ fetchCount = before.fetchCount
        /\ cache = before.cache
        /\ combined = before.combined
        /\ result_table = Unset

\* C5 witness: a run with an invalid range has returned, after an earlier
\* run had filled the cache.
C5_Witness ==
    /\ runs > 1 /\ end_year < start_year /\ pc = "idle"
    /\ fetchCount > 0

\* C6: a run of main with end_year < start_year leaves the file system as it
\* found it: the data folder, the cache files and the combined output files.
C6_NoSideEffects ==
    (runs > 0 /\ end_year < start_year /\ pc = "idle") =>
        /\ dirExists = before.dirExists
        /\ cache = before.cache
        /\ combined = before.combined

\* C7: a 200 response whose body holds no table makes load_or_fetch_data
\* return None, and the run does not raise on it.
C7_NoTableIsSoft ==
    \A i \in 1..Len(resolved) :
        (resolved[i].source = "remote" /\ resolved[i].answer.kind = "response"
           /\ resolved[i].answer.status_code = HTTP_OK
           /\ resolved[i].answer.tables = << >>) =>
            /\ resolved[i].kind = "None"
            /\ outcome # "raised"

\* C8: when the loop has been left (plan exhausted or break) with nothing
\* collected, get_data_for_months raises instead of returning a table, and
\* the run ends with that error and with the combined output files untouched.
C8_NothingCollected ==
    (result_table # Unset /\ all_tables = << >>) =>
        /\ result_table.kind = "raise"
        /\ outcome = "raised" /\ exception = ConcatError
        /\ pc = "idle"
        /\ combined = before.combined

\* C8 witness: the loop was left by the break with nothing collected, and
\* get_data_for_months has raised.
C8_Witness ==
    /\ result_table.kind = "raise" /\ broke /\ left > 0
    /\ all_tables = << >>

\* The rows of the non-empty tables among calls, in the order of the calls.
RECURSIVE RowsOf(_)
RowsOf(calls) ==
    IF calls = << >> THEN << >>
    ELSE (IF NonEmpty(Head(calls)) THEN Head(calls).table ELSE << >>)
         \o RowsOf(Tail(calls))

\* (year, month, day) a is not before b.
DateGeq(a, b) ==
    \/ a[1] > b[1]
    \/ (a[1] = b[1] /\ a[2] >= b[2])

\* C9: the table get_data_for_months returns holds exactly the rows of the
\* non-empty tables resolved by the loop, in the order they were resolved,
\* which is from the latest entry of the plan backwards; the rows of one
\* month keep their order; zero-row results contribute nothing.
C9_Concatenation ==
    result_table.kind = "table" =>
        LET rows == RowsOf(resolved)
            out == result_table.table
        IN /\ Len(out) = Len(rows)
           /\ \A i \in 1..Len(out) :
                 /\ out[i].value = rows[i].value
                 /\ out[i].month_year = rows[i].month_year
                 /\ out[i].index = i - 1
           /\ \A i \in 1..(Len(out) - 1) :
                 /\ DateGeq(out[i].month_year, out[i + 1].month_year)
                 /\ out[i].month_year = out[i + 1].month_year =>
                       out[i].value < out[i + 1].value
           /\ resolved[1].pair = fetch_list[Len(fetch_list)]
           /\ \A i \in 1..(Len(resolved) - 1) :
                 LaterPair(resolved[i].pair, resolved[i + 1].pair)

\* C9 witness: a result made of two non-empty tables with a zero-row month
\* resolved between them.
C9_Witness ==
    /\ result_table.kind = "table"
    /\ \E i, j, k \in 1..Len(resolved) :
          /\ i < j /\ j < k
          /\ NonEmpty(resolved[i]) /\ ZeroRow(resolved[j]) /\ NonEmpty(resolved[k])

\* C10: for start_year <= end_year the plan holds exactly the pairs of the
\* years start_year..end_year with months 1..12 of the years before the
\* current one, months 1..current_month of the current year and no month of
\* a later year, strictly ascending by (year, month).
C10_ExactPlan ==
    (runs > 0 /\ outcome # "invalid_range") =>
        /\ {fetch_list[i] : i \in 1..Len(fetch_list)} =
              {p \in (1..MONTHS_PER_YEAR) \X (start_year..end_year) :
                  \/ p[2] < current_year
                  \/ (p[2] = current_year /\ p[1] <= current_month)}
        /\ \A i \in 1..(Len(fetch_list) - 1) :
              LaterPair(fetch_list[i + 1], fetch_list[i])

\* C10 witness: a plan over a range with a year before, the same as and
\* after the current year.
C10_Witness ==
    /\ runs > 0 /\ outcome # "invalid_range"
    /\ start_year < current_year /\ end_year > current_year
    /\ Len(fetch_list) = MONTHS_PER_YEAR + current_month

\* A step that makes one call of load_or_fetch_data, and the call it records.
CallStep == Len(resolved') = Len(resolved) + 1
NewCall == resolved'[Len(resolved')]
\* A name made by StampedName from a clock reading not after t.
StampedBy(n, t) ==
    /\ Len(n) = 3
    /\ n[1] = t.year /\ n[2] = t.month /\ n[3] <= t.second

\* C11: starting without combined output, the first run that saves writes
\* the base-named file, and the second writes a second file under a name
\* with the timestamp of the clock, leaving the first file as it was.
C11_TwoDistinctFiles ==
    /\ (outcome = "saved" /\ DOMAIN before.combined = {}) =>
          /\ DOMAIN combined = {BaseName}
          /\ combined[BaseName] = to_parquet(result_table.table)
    /\ (outcome = "saved" /\ DOMAIN before.combined = {BaseName}) =>
          \E n \in DOMAIN combined :
              /\ n # BaseName /\ StampedBy(n, now)
              /\ DOMAIN combined = {BaseName, n}
              /\ combined[n] = to_parquet(result_table.table)
              /\ combined[BaseName] = before.combined[BaseName]

\* C11 witness: the second run has saved next to the first run's file.
C11_Witness ==
    /\ outcome = "saved" /\ runs = 2
    /\ DOMAIN before.combined = {BaseName}
    /\ Cardinality(DOMAIN combined) = 2

\* C12: a request answered 200 with a table leaves the table in the cache
\* file of its pair when load_or_fetch_data returns; a cache file is never
\* removed or changed; and a call for a pair that has a cache file is served
\* from the file and makes no remote request, in the same or a later run.
C12_FetchedOnce ==
    [][ /\ \A p \in AllPairs : cache[p] # NoFile => cache'[p] = cache[p]
        /\ CallStep =>
             /\ (NewCall.source = "remote" /\ NewCall.answer.kind = "response"
                   /\ NewCall.answer.status_code = HTTP_OK
                   /\ NewCall.answer.tables # << >>) =>
                     /\ NewCall.kind = "table"
                     /\ cache'[NewCall.pair] # NoFile
                     /\ read_parquet(cache'[NewCall.pair]) = NewCall.table
             /\ cache[NewCall.pair] # NoFile =>
                     /\ NewCall.source = "cache"
                     /\ fetchCount' = fetchCount
                     /\ NewCall.kind = "table"
                     /\ NewCall.table = read_parquet(cache[NewCall.pair])
      ]_vars

\* C12 witness: a later run is served a non-empty table from the cache,
\* having made no request.
C12_Witness ==
    /\ runs = 2 /\ resolved # << >>
    /\ LastCall.source = "cache" /\ NonEmpty(LastCall)
    /\ fetchCount = before.fetchCount /\ fetchCount > 0

\* C13: a request answered with a status other than 200 leaves every cache
\* file as it was and creates none for its pair; no run calls
\* load_or_fetch_data twice for one pair; and a call for a pair that was
\* answered so and has no cache file asks the site again.
C13_AbsentNotCached ==
    [][ CallStep =>
          /\ (NewCall.source = "remote" /\ NotOk(NewCall.answer)) =>
                /\ NewCall.kind = "None"
                /\ cache' = cache
                /\ cache'[NewCall.pair] = NoFile
          /\ \A i \in 1..Len(resolved) : resolved[i].pair # NewCall.pair
          /\ (NewCall.pair \in absent /\ cache[NewCall.pair] = NoFile) =>
                /\ NewCall.source = "remote"
                /\ fetchCount' = fetchCount + 1
      ]_vars

\* C13 witness: a later run has asked the site again for a pair that was
\* answered with a status other than 200 before, and got a table this time.
C13_Witness ==
    /\ runs = 2 /\ resolved # << >>
    /\ LastCall.pair \in absent
    /\ LastCall.source = "remote" /\ LastCall.kind = "table"

C15_EmptyPlan ==
    (runs > 0 /\ start_year <= end_year /\ start_year > current_year) =>
        /\ fetch_list = << >>
        /\ outcome = "no_months" /\ exception = ""
        /\ pc = "idle"
        /\ resolved = << >>
        /\ result_table = Unset
        /\ fetchCount = before.fetchCount
        /\ cache = before.cache
        /\ combined = before.combined

\* C15 witness: a run over years after the current one has returned, in a
\* working directory where an earlier run had fetched and saved.
C15_Witness ==
    /\ runs = 2 /\ start_year <= end_year /\ start_year > current_year
    /\ outcome = "no_months"
    /\ fetchCount > 0 /\ BaseName \in DOMAIN combined

\* The zero-row results among the calls after the last non-empty result.
ZerosSinceNonEmpty ==
    LET nonempty == {i \in 1..Len(resolved) : NonEmpty(resolved[i])}
    IN {k \in 1..Len(resolved) : ZeroRow(resolved[k]) /\ \A i \in nonempty : i < k}

\* C16: in every state of the traversal the counter is the number of
\* zero-row results since the last non-empty result (or the start), it is 0
\* right after a non-empty result, it never exceeds 5, the list of labels
\* is as long, and the loop breaks only on five zero-row results in a row.
C16_Counter ==
    /\ consecutive_zero_rows = Cardinality(ZerosSinceNonEmpty)
    /\ Len(consecutive_zero_months) = consecutive_zero_rows
    /\ consecutive_zero_rows <= ABORT_AFTER
    /\ (resolved # << >> /\ NonEmpty(LastCall)) => consecutive_zero_rows = 0
    /\ broke => /\ consecutive_zero_rows = ABORT_AFTER
                /\ FiveZeroEndingAt(Len(resolved))

\* C16 witness: zero-row months on both sides of a non-empty month, the
\* counter counting only the ones after it.
C16_Witness ==
    /\ consecutive_zero_rows = 1
    /\ Len(resolved) >= 3
    /\ ZeroRow(LastCall)
    /\ \E i, j \in 1..Len(resolved) :
          i < j /\ ZeroRow(resolved[i]) /\ NonEmpty(resolved[j])

\* C17: a save never changes or replaces a combined output file that was
\* there before it: every earlier file is kept as it was and the output is
\* one more file, also when two saves fall into the same second.
C17_NeverOverwrite ==
    outcome = "saved" =>
        /\ \A n \in DOMAIN before.combined :
              n \in DOMAIN combined /\ combined[n] = before.combined[n]
        /\ Cardinality(DOMAIN combined) = Cardinality(DOMAIN before.combined) + 1

\* C18: within a run the calls of load_or_fetch_data start at the last
\* entry of the plan and go strictly down by (year, month), through plan
\* entries only; so no pair is called twice and the run makes at most one
\* remote request for a pair.
C18_Descending ==
    /\ resolved # << >> => resolved[1].pair = fetch_list[Len(fetch_list)]
    /\ \A i \in 1..Len(resolved) :
          \E k \in 1..Len(fetch_list) : fetch_list[k] = resolved[i].pair
    /\ \A i \in 1..(Len(resolved) - 1) :
          LaterPair(resolved[i].pair, resolved[i + 1].pair)
    /\ \A i, j \in 1..Len(resolved) :
          resolved[i].pair = resolved[j].pair => i = j
    /\ fetchCount - before.fetchCount =
          Cardinality({i \in 1..Len(resolved) : resolved[i].source = "remote"})
    /\ fetchCount - before.fetchCount <=
          Cardinality({resolved[i].pair : i \in 1..Len(resolved)})

\* C18 witness: a traversal of three or more calls that goes from one year
\* down into the year before.
C18_Witness ==
    /\ Len(resolved) >= 3
    /\ resolved[1].pair[2] > resolved[2].pair[2]

\* A cache file that holds a table without rows.
ZeroFile(file) == file # NoFile /\ file.rows = << >>

\* C19: a zero-row table answered with status 200 is written to the cache
\* file of its pair; such a file stays as it is; and every call for its pair,
\* in this or a later run, is served from it without a request, returns a
\* zero-row table and adds one to the counter of zero-row months.
C19_EmptyCached ==
    [][ /\ \A p \in AllPairs : ZeroFile(cache[p]) => cache'[p] = cache[p]
        /\ CallStep =>
             /\ (NewCall.source = "remote" /\ NewCall.answer.kind = "response"
                   /\ NewCall.answer.status_code = HTTP_OK
                   /\ NewCall.answer.tables # << >>
                   /\ NewCall.answer.tables[1] = << >>) =>
                     ZeroFile(cache'[NewCall.pair])
             /\ ZeroFile(cache[NewCall.pair]) =>
                     /\ NewCall.source = "cache"
                     /\ ZeroRow(NewCall)
                     /\ fetchCount' = fetchCount
                     /\ consecutive_zero_rows' = consecutive_zero_rows + 1
      ]_vars

\* C19 witness: a later run is served a zero-row table from the cache and
\* counts it.
C19_Witness ==
    /\ runs = 2 /\ resolved # << >>
    /\ LastCall.source = "cache" /\ ZeroRow(LastCall)
    /\ consecutive_zero_rows >= 1
    /\ fetchCount = before.fetchCount

====
